---- MODULE Spec2Model ----
(***************************************************************************)
(* The real-time notification subsystem of the performance-tracker         *)
(* frontend: AuthProvider and NotificationProvider (context), the          *)
(* notificationService / authService wrappers and the axios interceptors.  *)
(* Every action is one run-to-completion step of the browser event loop:   *)
(* a React effect run, a promise continuation, an EventSource callback or  *)
(* a click handler.                                                        *)
(***************************************************************************)
EXTENDS Naturals, Integers, Sequences, FiniteSets, TLC

(* ------------------------------ bounds --------------------------------- *)
\* longest notification list (store, fetched page) that is explored
MaxLen == 2
\* backend calls (snapshot fetch, mark-one, mark-all) that may be in flight together
MaxInFlight == 2

(* ------------------------------ values --------------------------------- *)
Ids == {1, 2}
Statuses == {"UNREAD", "READ"}
Records == [notificationId : Ids, status : Statuses]
NoUser == "null"
Users == {"employee"}
NoToken == "null"

\* localStorage without the items 'token' and 'user'
NoStorage == [token |-> NoToken, user |-> NoUser]

Rec(id, st) == [notificationId |-> id, status |-> st]

RECURSIVE SeqsUpTo(_, _)
SeqsUpTo(S, n) ==
  IF n = 0 THEN {<<>>}
  ELSE LET shorter == SeqsUpTo(S, n - 1)
       IN shorter \cup {Append(s, x) : s \in {t \in shorter : Len(t) = n - 1}, x \in S}

DistinctIds(p) ==
  \A i, j \in DOMAIN p : i # j => p[i].notificationId # p[j].notificationId

\* pages the backend can return: server-assigned identifiers are unique
Pages == {p \in SeqsUpTo(Records, MaxLen) : DistinctIds(p)}

\* bodies of GET /notifications after the response interceptor unwrapped
\* the envelope: a paginated object, a bare array (the short ones: NotifList
\* treats both shapes alike), or null
Responses ==
  {[tag |-> "object", content |-> p] : p \in Pages}
    \cup {[tag |-> "array", content |-> p] : p \in {q \in Pages : Len(q) <= 1}}
    \cup {[tag |-> "null", content |-> <<>>]}

\* SSE message bodies: the JSON text of a record, or text JSON.parse rejects
Messages ==
  {[json |-> TRUE, rec |-> r] : r \in Records}
    \cup {[json |-> FALSE, rec |-> Rec(1, "UNREAD")]}

\* HTTP failures: 401 is singled out by the response interceptor
Failures == {"error", "401"}

\* the accounts of the three roles; user.role
Accounts == {"employee", "manager", "admin"}

Role(u) ==
  CASE u = "admin" -> "ADMIN"
    [] u = "manager" -> "MANAGER"
    [] OTHER -> "EMPLOYEE"

\* the routes of App wrapped in ProtectedRoute, with their roles prop
\* (no prop: the default [])
RouteRoles ==
  [p \in {"/dashboard", "/reviews", "/notifications", "/profile"} |-> {}]
    @@ [p \in {"/team-goals", "/team-members", "/team-reports"} |-> {"MANAGER"}]
    @@ [p \in {"/goals"} |-> {"EMPLOYEE", "MANAGER"}]
    @@ [p \in {"/feedback"} |-> {"EMPLOYEE"}]
    @@ [p \in {"/users", "/review-cycles", "/audit-logs", "/reports"} |-> {"ADMIN"}]

\* the locations explored: the guarded routes, /login, / and an unknown path
Paths == DOMAIN RouteRoles \cup {"/login", "/", "/unknown"}

VARIABLES
  user,            \* AuthProvider: useState(null)
  authLoading,     \* AuthProvider: useState(true)
  localStorage,    \* the 'token' and 'user' items
  notifications,   \* NotificationProvider: useState([])
  unreadCount,     \* NotificationProvider: useState(0)
  loading,         \* NotificationProvider: useState(false)
  eventSourceRef,  \* useRef(null): 0 is null, else the handle held
  openStreams,     \* EventSource objects on which close() was not called
  effectDue,       \* user changed and the [user] effect has not run yet
  fetches,         \* getNotifications calls in flight, by session of origin
  markReqs,        \* markAsRead confirm calls in flight, per identifier
  markAllReqs,     \* markAllAsRead confirm calls in flight
  navigating,      \* window.location.href was assigned: the page unloads
  pc,              \* calls the running [user] effect has still to make
  synced,          \* this session's snapshot has been applied to the store
  route,           \* BrowserRouter: the path of the current location
  last,            \* history: the last handler that ran and the store before it
  watch            \* the handlers whose runs the history records

vars == <<user, authLoading, localStorage, notifications, unreadCount, loading,
          eventSourceRef, openStreams, effectDue, fetches, markReqs,
          markAllReqs, navigating, pc, synced, route, last, watch>>

store == [n |-> notifications, c |-> unreadCount]

\* the stream side of the provider: the ref, the EventSource objects not yet
\* closed, and whether a call on it raised an exception
ES == [ref |-> eventSourceRef, open |-> openStreams, error |-> FALSE]

(* ------------------------ pure parts of the code ----------------------- *)
Max(a, b) == IF a >= b THEN a ELSE b

\* notifList.filter((n) => n.status === 'UNREAD').length
CountUnread(list) == Len(SelectSeq(list, LAMBDA n : n.status = "UNREAD"))

\* data?.content || data || []
NotifList(data) ==
  CASE data.tag = "object" -> data.content
    [] data.tag = "array" -> data.content
    [] OTHER -> <<>>

\* prev.map((n) => n.notificationId === notifId ? { ...n, status: 'READ' } : n)
MapRead(prev, notifId) ==
  [i \in DOMAIN prev |->
     IF prev[i].notificationId = notifId
     THEN [prev[i] EXCEPT !.status = "READ"]
     ELSE prev[i]]

\* prev.map((n) => ({ ...n, status: 'READ' }))
MapAllRead(prev) == [i \in DOMAIN prev |-> [prev[i] EXCEPT !.status = "READ"]]

(* ---------------- faulty variants the properties must reject ------------ *)
\* a snapshot merged into the list instead of replacing it
LoadMerged(s, data) ==
  LET notifList == NotifList(data) \o s.n
  IN [n |-> notifList, c |-> CountUnread(notifList)]

\* a snapshot whose unread records are added to the counter
LoadAccumulated(s, data) ==
  LET notifList == NotifList(data)
  IN [n |-> notifList, c |-> s.c + CountUnread(notifList)]

\* a streamed record counted only when it is UNREAD
OnMessageCountsUnread(s, newNotification) ==
  [n |-> <<newNotification>> \o s.n,
   c |-> IF newNotification.status = "UNREAD" THEN s.c + 1 ELSE s.c]

\* an optimistic mark-read that is not rolled back
MarkAsReadNotRolledBack(s, notifId) ==
  [n |-> MapRead(s.n, notifId), c |-> Max(0, s.c - 1)]

\* mark-all that forgets the counter
MarkAllAsReadKeepsCount(s) == [n |-> MapAllRead(s.n), c |-> s.c]

\* an optimistic mark-all that is not rolled back
MarkAllAsReadNotRolledBack(s) == [n |-> MapAllRead(s.n), c |-> 0]

\* a mark-read applied when the row is clicked, before the backend answers
MarkAsReadOptimistic(s, notifId) ==
  [n |-> MapRead(s.n, notifId), c |-> Max(0, s.c - 1)]

\* a failed snapshot load that empties the store
LoadRejectedClears(s) == [n |-> <<>>, c |-> 0]

\* a stream event handed to the callback without parsing it first
OnMessageEventUnchecked(s, m) == [n |-> <<m.rec>> \o s.n, c |-> s.c + 1]

\* the session cleared with the counter left as it was
ClearedKeepsCount(s) == [n |-> <<>>, c |-> s.c]

\* a stop that forgets the handle without closing it
StopForgets(es) == [es EXCEPT !.ref = 0]

\* a stop that calls close() without testing the ref
StopUnguarded(es) ==
  IF es.ref # 0
  THEN [es EXCEPT !.ref = 0, !.open = @ \ {es.ref}]
  ELSE [es EXCEPT !.error = TRUE]

\* an error callback that gives up the stream
OnStreamErrorCloses(es) ==
  IF es.ref # 0
  THEN [es EXCEPT !.ref = 0, !.open = @ \ {es.ref}]
  ELSE es

\* the effect opening the stream before it asks for the snapshot
EffectCallsStreamFirst == <<"startSSEStream", "loadNotifications">>

\* a route guard that lets every logged-in user through
ProtectedRouteAnyRole(ld, u, roles) ==
  IF ld THEN "spinner"
  ELSE IF u = NoUser THEN "/login"
  ELSE "children"

\* a snapshot applied only when the session that asked for it is still on
LoadAppliedGuarded(s, data, sess) ==
  LET notifList == NotifList(data)
  IN IF sess = "cur" THEN [n |-> notifList, c |-> CountUnread(notifList)] ELSE s

\* a loading flag that is cleared on success only
LoadFinallyOnSuccess(outcome) == outcome = "rejected"

\* a stream callback that skips a record whose id the list already holds
OnMessageDeduplicated(s, newNotification) ==
  IF \E i \in DOMAIN s.n : s.n[i].notificationId = newNotification.notificationId
  THEN s
  ELSE [n |-> <<newNotification>> \o s.n, c |-> s.c + 1]

\* a mark-read whose counter is not floored at zero
MarkAsReadUnfloored(s, notifId) == [n |-> MapRead(s.n, notifId), c |-> s.c - 1]

\* a start that subscribes without looking for the token
StartWithoutToken(es, token) ==
  LET open == es.open \ {es.ref}
      h == CHOOSE x \in 1..(Cardinality(open) + 1) : x \notin open
  IN [es EXCEPT !.ref = h, !.open = open \cup {h}]

\* a logout that keeps the saved session when the server call fails
LogoutStorageOnSuccess(outcome, ls) == IF outcome = "ok" THEN NoStorage ELSE ls

\* a login whose catch block does not rethrow
LoginRejectedSwallowed == [promise |-> "fulfilled", toast |-> TRUE]

(* --------------------- store updates of the handlers ------------------- *)
\* loadNotifications, the try block after the await
LoadResolved(s, data) ==
  LET notifList == NotifList(data)
  IN [n |-> notifList, c |-> CountUnread(notifList)]

\* the continuation of loadNotifications runs whatever the session (cur: the
\* one that is on, old: one that has ended) that made the call
LoadApplied(s, data, sess) == LoadResolved(s, data)

\* loadNotifications, the finally block: setLoading(false) on both paths
LoadFinally(outcome) == FALSE

\* loadNotifications, the catch block: console.error, no state is set
LoadRejected(s) == s

\* what the caller of loadNotifications gets: the async function returns
\* normally on both paths, and neither path shows a toast
LoadResolvedOutcome == [promise |-> "fulfilled", toast |-> FALSE]

LoadRejectedOutcome == [promise |-> "fulfilled", toast |-> FALSE]

\* markAsRead and markAllAsRead catch the rejection and show a toast
MarkRejectedOutcome == [promise |-> "fulfilled", toast |-> TRUE]

\* login, the catch block: toast.error, then throw error
LoginRejectedOutcome == [promise |-> "rejected", toast |-> TRUE]

\* authService.logout, the finally block: both items are removed
LogoutStorage(outcome, ls) == NoStorage

\* logout, the finally block: setUser(null)
LogoutUser(outcome, u) == NoUser

\* logout has no catch: a rejected POST rejects its promise after the finally;
\* the toast it shows is the success one
LogoutOutcome(outcome) ==
  [promise |-> IF outcome = "ok" THEN "fulfilled" ELSE "rejected", toast |-> FALSE]

\* the onMessage callback handed to subscribeToStream
OnMessage(s, newNotification) ==
  [n |-> <<newNotification>> \o s.n, c |-> s.c + 1]

\* eventSource.onmessage: JSON.parse(event.data) inside try, then the callback;
\* a body that does not parse is logged
OnMessageEvent(s, m) == IF m.json THEN OnMessage(s, m.rec) ELSE s

\* markAsRead up to the await: the PUT is sent, no state is set
MarkAsReadCalled(s, notifId) == s

\* markAllAsRead up to the await: the PUT is sent, no state is set
MarkAllAsReadCalled(s) == s

\* markAsRead, the try block after the await
MarkAsReadResolved(s, notifId) ==
  [n |-> MapRead(s.n, notifId), c |-> Max(0, s.c - 1)]

\* markAsRead, the catch block: a toast, no state is set
MarkAsReadRejected(s, notifId) == s

\* markAllAsRead, the try block after the await
MarkAllAsReadResolved(s) == [n |-> MapAllRead(s.n), c |-> 0]

\* markAllAsRead, the catch block: a toast, no state is set
MarkAllAsReadRejected(s) == s

\* the else branch of the [user] effect
Cleared(s) == [n |-> <<>>, c |-> 0]

SetStore(s) == notifications' = s.n /\ unreadCount' = s.c

(* ------------------------- the stream handle --------------------------- *)
\* stopSSEStream: close and forget the handle held, if any
StopSSEStream(es) ==
  IF es.ref # 0
  THEN [es EXCEPT !.ref = 0, !.open = @ \ {es.ref}]
  ELSE es

\* a new EventSource object: the first handle not in use
NewHandle(open) == CHOOSE h \in 1..(Cardinality(open) + 1) : h \notin open

\* startSSEStream: stop, then subscribe unless localStorage has no token
StartSSEStream(es, token) ==
  LET stopped == StopSSEStream(es)
      h == NewHandle(stopped.open)
  IN IF token = NoToken
     THEN stopped
     ELSE [stopped EXCEPT !.ref = h, !.open = @ \cup {h}]

\* eventSource.onerror and the onError callback: both only log
OnStreamError(es) == es

SetStream(es) == eventSourceRef' = es.ref /\ openStreams' = es.open

\* the if branch of the [user] effect, in the order of its calls
EffectCalls == <<"loadNotifications", "startSSEStream">>

(* ------------------------------ history -------------------------------- *)
\* `last` describes the handler that has just run: which one, its argument,
\* the store it found (pre) and whether it changed the store.  A step of any
\* other kind resets it to Idle, so it speaks of the latest step only.
EmptyStore == [n |-> <<>>, c |-> 0]

NoPrev == [valid |-> FALSE, page |-> <<>>]

NoStream == [ref |-> 0, open |-> {}, error |-> FALSE]

Quiet == [promise |-> "fulfilled", toast |-> FALSE]

\* the handler that ran in the step before the latest one
NoBefore == [op |-> "none", id |-> 0, rec |-> Rec(1, "UNREAD"), pre |-> EmptyStore]

Idle ==
  [op |-> "none", id |-> 0, rec |-> Rec(1, "UNREAD"), page |-> <<>>,
   pre |-> EmptyStore, changed |-> FALSE, prev |-> NoPrev, es |-> NoStream,
   out |-> Quiet, sess |-> "cur", before |-> NoBefore]

Last(op, id, rec, page, post) ==
  [op |-> op, id |-> id, rec |-> rec, page |-> page, pre |-> store,
   changed |-> (post # store), prev |-> NoPrev, es |-> NoStream, out |-> Quiet,
   sess |-> "cur", before |-> NoBefore]

Op(op, post) == Last(op, 0, Rec(1, "UNREAD"), <<>>, post)

\* a resolved snapshot load keeps the store it found only when the step before
\* it was a resolved snapshot load too (prev names the page that one applied)
LastLoad(page, post) ==
  [Op("loadOk", post) EXCEPT
     !.page = page,
     !.pre = IF last.op = "loadOk" THEN store ELSE EmptyStore,
     !.prev = IF last.op = "loadOk" THEN [valid |-> TRUE, page |-> last.page]
              ELSE NoPrev]

\* clearing the store keeps only whether there was something to clear
LastClear(op, post) == [Op(op, post) EXCEPT !.pre = EmptyStore]

\* a handler of the stream side records the stream state it found
LastStream(op, es, post) == [Op(op, post) EXCEPT !.es = es]

\* the history keeps r when its handler is watched
\* with "chain" watched, a recorded handler also keeps what the recorded
\* handler of the step before it was, and the session of the call it completes
Chained(r) ==
  IF "chain" \in watch
  THEN [r EXCEPT !.before = [op |-> last.op, id |-> last.id, rec |-> last.rec,
                             pre |-> last.pre]]
  ELSE [r EXCEPT !.sess = "cur"]

Record(r) ==
  /\ last' = IF r.op \in watch THEN Chained(r) ELSE Idle
  /\ watch' = watch

\* the handlers that change the store, and the ones that must not
StoreOps ==
  {"mount", "clear", "loadOk", "ingest", "markOk", "markFail", "markAllOk",
   "markAllFail"}

\* the handlers of the session lifecycle, of the stream, and the failure paths
SessionOps ==
  {"mount", "clear", "loadNotifications", "startSSEStream", "sseError", "drop",
   "loadFail", "click", "clickAll"}

\* the handlers whose effect depends on what ran before them or beside them
AsyncOps ==
  {"logout", "loginFail", "ingest", "loadOk", "loadFail", "markOk", "chain"}

(* --------------------------- initial state ----------------------------- *)
\* what a previous visit may have left in localStorage: nothing, a session
\* written by login, or a 'user' item that JSON.parse rejects
InitialStorage ==
  {NoStorage}
    \cup {[token |-> "jwt", user |-> u] : u \in Users}
    \cup {[token |-> "jwt", user |-> "corrupt"]}

NoFetches == [cur |-> 0, old |-> 0]

NoMarks == [i \in Ids |-> 0]

Fresh(ls) ==
  /\ user = NoUser
  /\ authLoading = TRUE
  /\ localStorage = ls
  /\ notifications = <<>>
  /\ unreadCount = 0
  /\ loading = FALSE
  /\ eventSourceRef = 0
  /\ openStreams = {}
  /\ effectDue = FALSE
  /\ fetches = NoFetches
  /\ markReqs = NoMarks
  /\ markAllReqs = 0
  /\ navigating = FALSE
  /\ pc = <<>>
  /\ synced = FALSE
  /\ last = Idle

\* the notification handlers are followed on the notifications page
Init ==
  \E ls \in InitialStorage :
    Fresh(ls) /\ route = "/notifications" /\ watch = StoreOps

InitSession ==
  \E ls \in InitialStorage :
    Fresh(ls) /\ route = "/notifications" /\ watch = SessionOps

InitAsync ==
  \E ls \in InitialStorage :
    Fresh(ls) /\ route = "/notifications" /\ watch = AsyncOps

(* ------------------------------ helpers -------------------------------- *)
\* JSON.parse(savedUser) in the AuthProvider mount effect
ParsesAsUser(item) == item \in Users

\* response interceptor, error branch: a 401 clears the session items and
\* assigns window.location.href
StorageAfter(kind, ls) == IF kind = "401" THEN NoStorage ELSE ls

\* a rejected call leaves f, m, a in flight; on a 401 the navigation that
\* starts aborts every call of the document
Rejected(kind, f, m, a) ==
  /\ localStorage' = StorageAfter(kind, localStorage)
  /\ navigating' = (kind = "401")
  /\ fetches' = IF kind = "401" THEN NoFetches ELSE f
  /\ markReqs' = IF kind = "401" THEN NoMarks ELSE m
  /\ markAllReqs' = IF kind = "401" THEN 0 ELSE a

Outstanding == fetches.cur + fetches.old

\* every fetch in flight belongs to a session that is now over
Superseded == [cur |-> 0, old |-> Outstanding]

MarksInFlight ==
  LET RECURSIVE Sum(_)
      Sum(S) == IF S = {} THEN 0
                ELSE LET i == CHOOSE x \in S : TRUE IN markReqs[i] + Sum(S \ {i})
  IN Sum(Ids) + markAllReqs

InFlight == Outstanding + MarksInFlight

\* ProtectedRoute lets the pages (NotificationsPage, the Sidebar) render
PageShown == ~authLoading /\ user # NoUser

\* LoginPage is on screen: with a user it navigates to /dashboard
LoginShown == ~authLoading /\ user = NoUser

\* React runs the pending effects before it handles a click or a submit, and
\* the user does not change between a click and the answer to its request
Flushed == ~effectDue

(* ------------------------------- actions ------------------------------- *)
\* First commit: NotificationProvider's [user] effect runs with user = null
\* (child first), then AuthProvider's mount effect restores a saved session.
Mount ==
  /\ pc = <<>>
  /\ authLoading /\ ~navigating
  /\ SetStore(Cleared(store))
  /\ IF localStorage.user # NoUser /\ localStorage.token # NoToken
     THEN IF ParsesAsUser(localStorage.user)
          THEN /\ user' = localStorage.user
               /\ effectDue' = TRUE
               /\ UNCHANGED localStorage
          ELSE /\ localStorage' = NoStorage
               /\ UNCHANGED <<user, effectDue>>
     ELSE UNCHANGED <<user, effectDue, localStorage>>
  /\ authLoading' = FALSE
  /\ Record(LastClear("mount", Cleared(store)))
  /\ UNCHANGED <<loading, eventSourceRef, openStreams, fetches, markReqs,
                 markAllReqs, navigating>>
  /\ synced' = FALSE
  /\ UNCHANGED <<pc, route>>

\* AuthProvider.login after authService.login resolved
LoginOk(u) ==
  /\ pc = <<>>
  /\ LoginShown /\ Flushed /\ ~navigating
  /\ InFlight < MaxInFlight
  /\ localStorage' = [token |-> "jwt", user |-> u]
  /\ user' = u
  /\ effectDue' = TRUE
  /\ fetches' = Superseded
  /\ Record(Idle)
  /\ UNCHANGED <<authLoading, notifications, unreadCount, loading, eventSourceRef,
                 openStreams, markReqs, markAllReqs, navigating>>
  /\ synced' = FALSE
  /\ UNCHANGED <<pc, route>>

\* AuthProvider.login after authService.login rejected: toast and rethrow
LoginFail(kind) ==
  /\ pc = <<>>
  /\ LoginShown /\ ~navigating
  /\ Rejected(kind, fetches, markReqs, markAllReqs)
  /\ Record([Op("loginFail", store) EXCEPT !.out = LoginRejectedOutcome])
  /\ UNCHANGED <<user, authLoading, notifications, unreadCount, loading,
                 eventSourceRef, openStreams, effectDue>>
  /\ UNCHANGED <<pc, synced, route>>

\* AuthProvider.logout once POST /auth/logout settled (outcome "ok" or a
\* failure): authService's finally removes the items, then setUser(null)
LogoutSettled(outcome) ==
  /\ pc = <<>>
  /\ PageShown /\ Flushed /\ ~navigating
  /\ localStorage' = LogoutStorage(outcome, localStorage)
  /\ navigating' = (outcome = "401")
  /\ fetches' = IF outcome = "401" THEN NoFetches ELSE Superseded
  /\ markReqs' = IF outcome = "401" THEN NoMarks ELSE markReqs
  /\ markAllReqs' = IF outcome = "401" THEN 0 ELSE markAllReqs
  /\ user' = LogoutUser(outcome, user)
  /\ effectDue' = TRUE
  /\ Record([Op("logout", store) EXCEPT !.out = LogoutOutcome(outcome)])
  /\ UNCHANGED <<authLoading, notifications, unreadCount, loading, eventSourceRef,
                 openStreams>>
  /\ synced' = FALSE
  /\ UNCHANGED <<pc, route>>

\* one call of the effect's if branch, made with the stream side as es
Call(c, es) ==
  IF c = "loadNotifications"
  THEN /\ loading' = TRUE
       /\ fetches' = [fetches EXCEPT !.cur = @ + 1]
       /\ SetStream(es)
  ELSE /\ SetStream(StartSSEStream(es, localStorage.token))
       /\ UNCHANGED <<loading, fetches>>

\* NotificationProvider's [user] effect: cleanup of the previous run, then the
\* body: with a user its first call, else stop and clear
RunEffect ==
  /\ pc = <<>>
  /\ effectDue /\ ~authLoading /\ ~navigating
  /\ effectDue' = FALSE
  /\ IF user # NoUser
     THEN /\ Call(Head(EffectCalls), StopSSEStream(ES))
          /\ pc' = Tail(EffectCalls)
          /\ UNCHANGED <<notifications, unreadCount>>
          /\ Record(LastStream(Head(EffectCalls), ES, store))
     ELSE /\ SetStream(StopSSEStream(StopSSEStream(ES)))
          /\ SetStore(Cleared(store))
          /\ Record([LastClear("clear", Cleared(store)) EXCEPT !.es = ES])
          /\ UNCHANGED <<loading, fetches, pc>>
  /\ UNCHANGED <<user, authLoading, localStorage, markReqs, markAllReqs, navigating>>
  /\ UNCHANGED <<synced, route>>

\* the effect's if branch goes on with its next call
EffectNext ==
  /\ pc # <<>>
  /\ Call(Head(pc), ES)
  /\ pc' = Tail(pc)
  /\ Record(LastStream(Head(pc), last.es, store))
  /\ UNCHANGED <<user, authLoading, localStorage, notifications, unreadCount,
                 effectDue, markReqs, markAllReqs, navigating>>
  /\ UNCHANGED <<synced, route>>

\* loadNotifications after getNotifications resolved
FetchOk(sess, data) ==
  /\ pc = <<>>
  /\ fetches[sess] > 0 /\ ~navigating
  /\ fetches' = [fetches EXCEPT ![sess] = @ - 1]
  /\ SetStore(LoadApplied(store, data, sess))
  /\ loading' = LoadFinally("resolved")
  /\ Record([LastLoad(data.content, LoadApplied(store, data, sess))
                EXCEPT !.out = LoadResolvedOutcome, !.sess = sess])
  /\ UNCHANGED <<user, authLoading, localStorage, eventSourceRef, openStreams,
                 effectDue, markReqs, markAllReqs, navigating>>
  /\ synced' = (synced \/ sess = "cur")
  /\ UNCHANGED <<pc, route>>

\* loadNotifications after getNotifications rejected: logged, finally clears loading
FetchFail(sess, kind) ==
  /\ pc = <<>>
  /\ fetches[sess] > 0 /\ ~navigating
  /\ Rejected(kind, [fetches EXCEPT ![sess] = @ - 1], markReqs, markAllReqs)
  /\ SetStore(LoadRejected(store))
  /\ loading' = LoadFinally("rejected")
  /\ Record([Op("loadFail", LoadRejected(store)) EXCEPT !.out = LoadRejectedOutcome])
  /\ UNCHANGED <<user, authLoading, eventSourceRef, openStreams, effectDue>>
  /\ UNCHANGED <<pc, synced, route>>

\* eventSource.onmessage
StreamMessage(h, m) ==
  /\ pc = <<>>
  /\ h \in openStreams /\ ~navigating
  /\ m.json => Len(notifications) < MaxLen
  /\ SetStore(OnMessageEvent(store, m))
  /\ Record(IF m.json
            THEN Last("ingest", m.rec.notificationId, m.rec, <<>>,
                      OnMessageEvent(store, m))
            ELSE [LastStream("drop", ES, OnMessageEvent(store, m)) EXCEPT !.id = h])
  /\ UNCHANGED <<user, authLoading, localStorage, loading, eventSourceRef,
                 openStreams, effectDue, fetches, markReqs, markAllReqs, navigating>>
  /\ UNCHANGED <<pc, synced, route>>

\* eventSource.onerror: both callbacks only log
StreamError(h) ==
  /\ pc = <<>>
  /\ h \in openStreams /\ ~navigating
  /\ SetStream(OnStreamError(ES))
  /\ Record([LastStream("sseError", ES, store) EXCEPT !.id = h])
  /\ UNCHANGED <<user, authLoading, localStorage, notifications, unreadCount,
                 loading, effectDue, fetches, markReqs, markAllReqs, navigating>>
  /\ UNCHANGED <<pc, synced, route>>

\* NotificationsPage: click on a row, isUnread && markAsRead(notif.notificationId)
ClickNotification(i) ==
  /\ pc = <<>>
  /\ PageShown /\ Flushed /\ ~navigating /\ ~loading
  /\ i \in DOMAIN notifications
  /\ notifications[i].status = "UNREAD"
  /\ InFlight < MaxInFlight
  /\ markReqs' = [markReqs EXCEPT ![notifications[i].notificationId] = @ + 1]
  /\ SetStore(MarkAsReadCalled(store, notifications[i].notificationId))
  /\ Record(Last("click", notifications[i].notificationId, Rec(1, "UNREAD"), <<>>,
                  MarkAsReadCalled(store, notifications[i].notificationId)))
  /\ UNCHANGED <<user, authLoading, localStorage,
                 loading, eventSourceRef, openStreams, effectDue, fetches,
                 markAllReqs, navigating>>
  /\ UNCHANGED <<pc, synced, route>>

\* markAsRead after notificationService.markAsRead resolved
MarkAsReadOk(id) ==
  /\ pc = <<>>
  /\ markReqs[id] > 0 /\ ~navigating
  /\ markReqs' = [markReqs EXCEPT ![id] = @ - 1]
  /\ SetStore(MarkAsReadResolved(store, id))
  /\ Record(Last("markOk", id, Rec(1, "UNREAD"), <<>>, MarkAsReadResolved(store, id)))
  /\ UNCHANGED <<user, authLoading, localStorage, loading, eventSourceRef,
                 openStreams, effectDue, fetches, markAllReqs, navigating>>
  /\ UNCHANGED <<pc, synced, route>>

\* markAsRead after notificationService.markAsRead rejected
MarkAsReadFail(id, kind) ==
  /\ pc = <<>>
  /\ markReqs[id] > 0 /\ ~navigating
  /\ Rejected(kind, fetches, [markReqs EXCEPT ![id] = @ - 1], markAllReqs)
  /\ SetStore(MarkAsReadRejected(store, id))
  /\ Record([Last("markFail", id, Rec(1, "UNREAD"), <<>>, MarkAsReadRejected(store, id))
                EXCEPT !.out = MarkRejectedOutcome])
  /\ UNCHANGED <<user, authLoading, loading, eventSourceRef, openStreams,
                 effectDue>>
  /\ UNCHANGED <<pc, synced, route>>

\* NotificationsPage: the "Mark all as read" button, shown when unreadCount > 0
ClickMarkAll ==
  /\ pc = <<>>
  /\ PageShown /\ Flushed /\ ~navigating
  /\ unreadCount > 0
  /\ InFlight < MaxInFlight
  /\ markAllReqs' = markAllReqs + 1
  /\ SetStore(MarkAllAsReadCalled(store))
  /\ Record(Op("clickAll", MarkAllAsReadCalled(store)))
  /\ UNCHANGED <<user, authLoading, localStorage,
                 loading, eventSourceRef, openStreams, effectDue, fetches, markReqs,
                 navigating>>
  /\ UNCHANGED <<pc, synced, route>>

\* markAllAsRead after notificationService.markAllAsRead resolved
MarkAllOk ==
  /\ pc = <<>>
  /\ markAllReqs > 0 /\ ~navigating
  /\ markAllReqs' = markAllReqs - 1
  /\ SetStore(MarkAllAsReadResolved(store))
  /\ Record(Op("markAllOk", MarkAllAsReadResolved(store)))
  /\ UNCHANGED <<user, authLoading, localStorage, loading, eventSourceRef,
                 openStreams, effectDue, fetches, markReqs, navigating>>
  /\ UNCHANGED <<pc, synced, route>>

\* markAllAsRead after notificationService.markAllAsRead rejected
MarkAllFail(kind) ==
  /\ pc = <<>>
  /\ markAllReqs > 0 /\ ~navigating
  /\ Rejected(kind, fetches, markReqs, markAllReqs - 1)
  /\ SetStore(MarkAllAsReadRejected(store))
  /\ Record([Op("markAllFail", MarkAllAsReadRejected(store))
                EXCEPT !.out = MarkRejectedOutcome])
  /\ UNCHANGED <<user, authLoading, loading, eventSourceRef, openStreams,
                 effectDue>>
  /\ UNCHANGED <<pc, synced, route>>

\* the navigation started by the 401 branch of the interceptor: the document is
\* replaced, requests and streams of the old document are gone
PageReload ==
  /\ pc = <<>>
  /\ navigating
  /\ user' = NoUser
  /\ authLoading' = TRUE
  /\ notifications' = <<>>
  /\ unreadCount' = 0
  /\ loading' = FALSE
  /\ eventSourceRef' = 0
  /\ openStreams' = {}
  /\ effectDue' = FALSE
  /\ fetches' = NoFetches
  /\ markReqs' = NoMarks
  /\ markAllReqs' = 0
  /\ navigating' = FALSE
  /\ Record(Idle)
  /\ UNCHANGED localStorage
  /\ synced' = FALSE
  /\ UNCHANGED <<pc, route>>

\* one step of the event loop; msgs are the bodies the stream may carry.  The
\* effect runs to its end (pc) before any other handler
Step(msgs) ==
  \/ Mount
  \/ \E u \in Users : LoginOk(u)
  \/ \E kind \in Failures : LoginFail(kind)
  \/ \E outcome \in {"ok"} \cup Failures : LogoutSettled(outcome)
  \/ RunEffect
  \/ EffectNext
  \/ \E sess \in {"cur", "old"}, data \in Responses : FetchOk(sess, data)
  \/ \E sess \in {"cur", "old"}, kind \in Failures : FetchFail(sess, kind)
  \/ \E h \in openStreams, m \in msgs : StreamMessage(h, m)
  \/ \E h \in openStreams : StreamError(h)
  \/ \E i \in 1..MaxLen : ClickNotification(i)
  \/ \E id \in Ids : MarkAsReadOk(id)
  \/ \E id \in Ids, kind \in Failures : MarkAsReadFail(id, kind)
  \/ ClickMarkAll
  \/ MarkAllOk
  \/ \E kind \in Failures : MarkAllFail(kind)
  \/ PageReload

Next == Step(Messages)

Spec == Init /\ [][Next]_vars

\* the stream as the backend is meant to drive it: every pushed record is a
\* new notification, hence UNREAD
NextUnreadStream == Step({m \in Messages : m.rec.status = "UNREAD"})

SpecUnreadStream == Init /\ [][NextUnreadStream]_vars

\* the same program with the history kept of the session and failure handlers
SpecSession == InitSession /\ [][Next]_vars

\* the same program with the history kept of the handlers of AsyncOps
SpecAsync == InitAsync /\ [][NextUnreadStream]_vars

(* ------------------------------ the router ----------------------------- *)
\* ProtectedRoute: what it returns for the auth state and the roles prop; a
\* path stands for <Navigate to=path replace />
ProtectedRoute(ld, u, roles) ==
  IF ld THEN "spinner"
  ELSE IF u = NoUser THEN "/login"
  ELSE IF roles # {} /\ Role(u) \notin roles THEN "/dashboard"
  ELSE "children"

\* the element Routes shows at path p; LoginPage navigates away with a user
Element(p, ld, u) ==
  IF p \in DOMAIN RouteRoles THEN ProtectedRoute(ld, u, RouteRoles[p])
  ELSE IF p = "/login" THEN (IF u # NoUser THEN "/dashboard" ELSE "LoginPage")
  ELSE "/dashboard"

Shown == Element(route, authLoading, user)

NotificationVars ==
  <<notifications, unreadCount, loading, eventSourceRef, openStreams, effectDue,
    fetches, markReqs, markAllReqs, navigating, pc, synced, last, watch>>

\* a visit may start at any location, with or without a saved session
InitRoute ==
  \E ls \in {NoStorage} \cup {[token |-> "jwt", user |-> u] : u \in Accounts},
     p \in Paths :
    Fresh(ls) /\ route = p /\ watch = {}

\* AuthProvider's mount effect: restore the saved user, then setLoading(false)
AuthChecked ==
  /\ authLoading
  /\ authLoading' = FALSE
  /\ user' = IF localStorage.user # NoUser /\ localStorage.token # NoToken
             THEN localStorage.user
             ELSE NoUser
  /\ UNCHANGED <<localStorage, route>>
  /\ UNCHANGED NotificationVars

\* LoginPage.handleSubmit: login resolved, then navigate('/dashboard')
SignedIn(u) ==
  /\ Shown = "LoginPage"
  /\ user' = u
  /\ localStorage' = [token |-> "jwt", user |-> u]
  /\ route' = "/dashboard"
  /\ UNCHANGED authLoading
  /\ UNCHANGED NotificationVars

\* Sidebar.handleLogout: logout settled, then navigate('/login')
SignedOut ==
  /\ Shown = "children"
  /\ user' = NoUser
  /\ localStorage' = NoStorage
  /\ route' = "/login"
  /\ UNCHANGED authLoading
  /\ UNCHANGED NotificationVars

\* a link of the Sidebar, or the history of the browser
GoTo(p) ==
  /\ route' = p
  /\ UNCHANGED <<user, authLoading, localStorage>>
  /\ UNCHANGED NotificationVars

\* a rendered <Navigate to=... replace />, or LoginPage's effect
FollowNavigate ==
  /\ Shown \in Paths
  /\ route' = Shown
  /\ UNCHANGED <<user, authLoading, localStorage>>
  /\ UNCHANGED NotificationVars

NextRoute ==
  \/ AuthChecked
  \/ \E u \in Accounts : SignedIn(u)
  \/ SignedOut
  \/ \E p \in Paths : GoTo(p)
  \/ FollowNavigate

SpecRoute == InitRoute /\ [][NextRoute]_vars

(* ------------------------------ properties ----------------------------- *)
Unread(list) == {i \in DOMAIN list : list[i].status = "UNREAD"}

WithId(list, id) == {i \in DOMAIN list : list[i].notificationId = id}

StoreIsPre == notifications = last.pre.n /\ unreadCount = last.pre.c

\* C1: in every reachable state unreadCount is the number of records of
\* notifications whose status is UNREAD.
C1_UnreadCountIsCount == unreadCount = Cardinality(Unread(notifications))

\* C2: a confirmed markAsRead(id) whose id matches no record leaves the list
\* and unreadCount as they were.
C2_MarkUnknownIdIsNoOp ==
  (last.op = "markOk" /\ WithId(last.pre.n, last.id) = {}) => StoreIsPre

\* C3: a confirmed markAsRead(id) on a record that is already READ leaves the
\* list and unreadCount as they were.
C3_MarkReadRecordIsNoOp ==
  (/\ last.op = "markOk"
   /\ WithId(last.pre.n, last.id) # {}
   /\ WithId(last.pre.n, last.id) \cap Unread(last.pre.n) = {}) => StoreIsPre

\* C4: a confirmed markAsRead(id) on an UNREAD record sets the record with that
\* id to READ, leaves every other record and the order as they were, and
\* lowers unreadCount by exactly one.
C4_MarkUnreadRecord ==
  (/\ last.op = "markOk"
   /\ WithId(last.pre.n, last.id) \cap Unread(last.pre.n) # {})
  => /\ Len(notifications) = Len(last.pre.n)
     /\ \A i \in DOMAIN last.pre.n :
          notifications[i] =
            IF last.pre.n[i].notificationId = last.id
            THEN [last.pre.n[i] EXCEPT !.status = "READ"]
            ELSE last.pre.n[i]
     /\ unreadCount = last.pre.c - 1

\* C5: right after a confirmed markAllAsRead, unreadCount is 0 and no record
\* is UNREAD.
C5_MarkAllLeavesNoneUnread ==
  last.op = "markAllOk" => (unreadCount = 0 /\ Unread(notifications) = {})

C5_Witness ==
  /\ last.op = "markAllOk"
  /\ Cardinality(Unread(last.pre.n)) = 2
  /\ last.pre.c > 0

\* C6: right after a resolved snapshot load, the list is the fetched page and
\* unreadCount is the number of UNREAD records of that page.
C6_LoadReplaces ==
  last.op = "loadOk"
    => (notifications = last.page /\ unreadCount = Cardinality(Unread(last.page)))

C6_Witness ==
  /\ last.op = "loadOk"
  /\ last.changed
  /\ last.pre.n # <<>>
  /\ Len(last.page) = 2
  /\ Cardinality(Unread(last.page)) = 1
  /\ \A i \in DOMAIN last.pre.n : \A j \in DOMAIN last.page : last.pre.n[i] # last.page[j]

\* C7: a resolved snapshot load that directly follows a resolved snapshot load
\* of the same page leaves the list and unreadCount as the first one left them.
C7_LoadIdempotent ==
  (last.op = "loadOk" /\ last.prev.valid /\ last.prev.page = last.page)
    => StoreIsPre

C7_Witness ==
  /\ last.op = "loadOk"
  /\ last.prev.valid
  /\ last.prev.page = last.page
  /\ Len(last.page) = 2
  /\ Unread(last.page) # {}

\* C8: a streamed record becomes the head of the list, the records already
\* stored follow it in their order, and unreadCount grows by exactly one,
\* whatever the status of the record.
C8_IngestPrepends ==
  last.op = "ingest"
    => (notifications = <<last.rec>> \o last.pre.n /\ unreadCount = last.pre.c + 1)

C8_Witness ==
  /\ last.op = "ingest"
  /\ last.pre = [n |-> <<Rec(1, "UNREAD")>>, c |-> 1]
  /\ notifications = <<Rec(2, "UNREAD"), Rec(1, "UNREAD")>>
  /\ unreadCount = 2

\* C9: when the confirm call of markAsRead(id) is rejected, the list and
\* unreadCount are as they were.
C9_MarkFailureKeepsStore == last.op = "markFail" => StoreIsPre

C9_Witness ==
  /\ last.op = "markFail"
  /\ WithId(notifications, last.id) \cap Unread(notifications) # {}
  /\ unreadCount > 0

\* C10: when the bulk-confirm call of markAllAsRead is rejected, every record
\* keeps its status and unreadCount is as it was.
C10_MarkAllFailureKeepsStore == last.op = "markAllFail" => StoreIsPre

C10_Witness ==
  /\ last.op = "markAllFail"
  /\ Unread(notifications) # {}
  /\ unreadCount > 0

\* C11: read state is changed pessimistically: in the state right after
\* markAsRead(id) or markAllAsRead() was called, with its confirm call still in
\* flight, no record has changed and unreadCount has not decreased; the change
\* is made by the handler of the successful confirm.
C11_MarkIsPessimistic ==
  /\ last.op = "click" => (StoreIsPre /\ markReqs[last.id] > 0)
  /\ last.op = "clickAll" => (StoreIsPre /\ markAllReqs > 0)

C11_Witness ==
  /\ last.op = "click"
  /\ notifications[1] = Rec(last.id, "UNREAD")
  /\ unreadCount = 2
  /\ markReqs[last.id] = 1

\* C12: at most one EventSource is open at any time, and it is the one the ref
\* holds; a start, also one made while a stream is held, closes that stream
\* and leaves the new one as the only open stream.
C12_AtMostOneStream ==
  LET again == StartSSEStream(ES, "jwt")
  IN /\ Cardinality(openStreams) <= 1
     /\ openStreams \subseteq {eventSourceRef}
     /\ again.open = {again.ref}

\* the stream of a second session, opened while a fetch of the first is
\* still in flight
C12_Witness ==
  /\ last.op = "startSSEStream"
  /\ fetches.old > 0
  /\ eventSourceRef # 0
  /\ openStreams = {eventSourceRef}

\* C13: when the [user] effect has run for user = null, the stream is closed
\* and forgotten and the store is cleared: no record, unreadCount 0.
C13_SessionEndClears ==
  last.op = "clear" =>
    /\ user = NoUser
    /\ eventSourceRef = 0
    /\ openStreams = {}
    /\ notifications = <<>>
    /\ unreadCount = 0

C13_Witness ==
  /\ last.op = "clear"
  /\ last.changed
  /\ last.es.ref # 0

\* the lifecycle of the session, read off the state: logged out without a
\* user; live once this session's snapshot is in the store and its stream is
\* held; syncing in between
Phase ==
  IF user = NoUser THEN "LOGGED_OUT"
  ELSE IF synced /\ eventSourceRef # 0 /\ ~effectDue /\ pc = <<>> THEN "LIVE"
  ELSE "SYNCING"

Stays == {<<p, p>> : p \in {"LOGGED_OUT", "SYNCING", "LIVE"}}

CycleMoves ==
  Stays \cup {<<"LOGGED_OUT", "SYNCING">>, <<"SYNCING", "LIVE">>,
              <<"LIVE", "LOGGED_OUT">>}

\* the phase a step leaves and the phase it enters
PhaseMove == <<Phase, Phase'>>

\* the effect run for a user asks for the snapshot, then opens the stream;
\* the session turns live in the step that applies its snapshot
EstablishInOrder ==
  /\ (user # NoUser /\ effectDue /\ ~effectDue' /\ user' = user) => pc' # <<>>
  /\ pc' # <<>> =>
       (pc' = <<"startSSEStream">> /\ fetches'.cur > 0 /\ loading'
          /\ eventSourceRef' = 0 /\ openStreams' = {})
  /\ (pc # <<>> /\ pc' = <<>>) =>
       (fetches'.cur > 0 /\ eventSourceRef' # 0 /\ openStreams' = {eventSourceRef'})
  /\ (Phase # "LIVE" /\ Phase' = "LIVE") =>
       (Phase = "SYNCING" /\ fetches'.cur < fetches.cur /\ ~loading'
          /\ eventSourceRef' \in openStreams')

\* C14 as stated: the lifecycle moves only LOGGED_OUT -> SYNCING -> LIVE ->
\* LOGGED_OUT.
C14_OnlyCycleMoves == [][(PhaseMove \in CycleMoves)]_vars

\* C14: every effect run for a user triggers the snapshot load and then opens
\* the stream, LIVE is entered only by the step that applies the session's
\* snapshot while its stream is held, and the lifecycle moves LOGGED_OUT ->
\* SYNCING -> LIVE -> LOGGED_OUT or, when the session ends before its snapshot
\* was applied, SYNCING -> LOGGED_OUT.
C14_Lifecycle ==
  [][/\ PhaseMove \in CycleMoves \cup {<<"SYNCING", "LOGGED_OUT">>}
     /\ EstablishInOrder]_vars

C14_Witness ==
  /\ Phase = "LIVE"
  /\ fetches.cur = 0
  /\ notifications # <<>>
  /\ openStreams = {eventSourceRef}

\* C15: a rejected snapshot fetch leaves list and unreadCount as they were.
C15_LoadFailureKeepsStore == last.op = "loadFail" => StoreIsPre

C15_Witness ==
  /\ last.op = "loadFail"
  /\ Len(notifications) = 2
  /\ unreadCount > 0

\* C16: a rejected snapshot fetch is surfaced: the promise of
\* loadNotifications rejects or the user is shown a failure notice.
C16_LoadFailureSurfaced ==
  last.op = "loadFail" => (last.out.promise = "rejected" \/ last.out.toast)

\* C17: a stream message whose body does not parse is dropped: list and
\* unreadCount stay as they were, and the stream it came on stays open and
\* held, so that later messages are still delivered.
C17_UnparsableIsDropped ==
  last.op = "drop" =>
    /\ StoreIsPre
    /\ last.id \in openStreams
    /\ ES = last.es

C17_Witness ==
  /\ last.op = "drop"
  /\ Len(notifications) = 1
  /\ unreadCount = 1
  /\ eventSourceRef = last.id

\* C18: a transport error on the stream changes nothing: list and unreadCount
\* stay, the handle held is neither closed nor replaced, no stream is opened,
\* and the lifecycle phase stays what it was.
C18_StreamErrorChangesNothing ==
  [][last'.op = "sseError" =>
       /\ notifications' = notifications
       /\ unreadCount' = unreadCount
       /\ eventSourceRef' = eventSourceRef
       /\ openStreams' = openStreams
       /\ last'.id \in openStreams'
       /\ Phase' = Phase]_vars

C18_Witness ==
  /\ last.op = "sseError"
  /\ Phase = "LIVE"
  /\ notifications # <<>>
  /\ last.es.ref = eventSourceRef

\* C19: stopSSEStream is idempotent: it leaves the ref null and raises
\* nothing, with no handle held it changes nothing, and a second stop after a
\* first changes nothing more.
C19_StopIdempotent ==
  LET once == StopSSEStream(ES)
  IN /\ once.ref = 0
     /\ ~once.error
     /\ once.open = openStreams \ {eventSourceRef}
     /\ eventSourceRef = 0 => once = ES
     /\ StopSSEStream(once) = once
     /\ last.op = "clear" => ES = StopSSEStream(StopSSEStream(last.es))

C19_Witness ==
  /\ last.op = "clear"
  /\ last.es.ref \in last.es.open
  /\ ES = StopSSEStream(last.es)

\* C20: at a guarded route ProtectedRoute renders its page only when the auth
\* check has finished, a user is logged in and, if the route names roles, the
\* role of the user is among them; once the check has finished it navigates to
\* /login without a user and to /dashboard with a user of another role.
C20_ProtectedRouteGuards ==
  route \in DOMAIN RouteRoles =>
    LET roles == RouteRoles[route]
        allowed == roles = {} \/ Role(user) \in roles
    IN /\ Shown = "children" => (~authLoading /\ user # NoUser /\ allowed)
       /\ (~authLoading /\ user = NoUser) => Shown = "/login"
       /\ (~authLoading /\ user # NoUser /\ ~allowed) => Shown = "/dashboard"
       /\ (~authLoading /\ user # NoUser /\ allowed) => Shown = "children"

C20_Witness ==
  /\ route = "/users"
  /\ ~authLoading
  /\ user = "employee"
  /\ Shown = "/dashboard"

\* C21: when logout has settled, also after a failed server call, the items
\* token and user are gone from localStorage and the user is null.
C21_LogoutEndsSession ==
  last.op = "logout" => (user = NoUser /\ localStorage = NoStorage)

C21_Witness ==
  /\ last.op = "logout"
  /\ last.out.promise = "rejected"
  /\ ~navigating
  /\ user = NoUser
  /\ localStorage = NoStorage

\* C30: after a failed login the user is still null, localStorage holds no
\* token and no user, and the promise of login is rejected.
C30_LoginFailureKeepsAuth ==
  last.op = "loginFail" =>
    /\ user = NoUser
    /\ localStorage = NoStorage
    /\ last.out.promise = "rejected"

C30_Witness ==
  /\ last.op = "loginFail"
  /\ ~navigating
  /\ ~authLoading
  /\ user = NoUser

\* C22: a snapshot that resolves right after a stream event was ingested
\* replaces the list by its page and the counter by the page's unread records,
\* so the event stays in the store only if the page carries it.
C22_SnapshotOverwritesEvent ==
  (last.op = "loadOk" /\ last.before.op = "ingest") =>
    /\ notifications = last.page
    /\ unreadCount = CountUnread(last.page)
    /\ (WithId(last.page, last.before.id) = {} =>
          \A i \in DOMAIN notifications : notifications[i] # last.before.rec)

\* the event was ingested while the fetch was in flight, the snapshot does not
\* hold it, and the store afterwards does not either
C22_Witness ==
  /\ last.op = "loadOk"
  /\ last.before.op = "ingest"
  /\ last.page # <<>>
  /\ WithId(last.page, last.before.id) = {}
  /\ WithId(notifications, last.before.id) = {}

\* C23: the response of a snapshot fetch made by a session that has ended is
\* applied like any other one: the store becomes its page.
C23_StaleSnapshotApplied ==
  (last.op = "loadOk" /\ last.sess = "old") =>
    /\ notifications = last.page
    /\ unreadCount = CountUnread(last.page)

\* a new session is on, its own snapshot has arrived, and the response of the
\* previous session is applied after it
C23_Witness ==
  /\ last.op = "loadOk"
  /\ last.sess = "old"
  /\ user # NoUser /\ ~effectDue /\ pc = <<>>
  /\ synced
  /\ Outstanding = 0
  /\ notifications # <<>>
  /\ notifications = last.page

\* C24: the same record ingested twice in a row over the stream is put in
\* front of the list twice and raises unreadCount by two.
C24_NoDedupOnIngest ==
  (last.op = "ingest" /\ last.before.op = "ingest" /\ last.before.rec = last.rec) =>
    /\ notifications = <<last.rec, last.rec>> \o last.before.pre.n
    /\ unreadCount = last.before.pre.c + 2
    /\ Cardinality(WithId(notifications, last.id)) >= 2

C24_Witness ==
  /\ last.op = "ingest"
  /\ last.before.op = "ingest"
  /\ last.before.rec = last.rec
  /\ last.before.pre.n = <<>>
  /\ notifications = <<last.rec, last.rec>>
  /\ unreadCount = 2

\* C25: while no user is logged in and the [user] effect has run, the list is
\* empty and unreadCount is 0.
C25_LoggedOutStoreEmpty ==
  (user = NoUser /\ ~authLoading /\ ~effectDue /\ pc = <<>>) =>
    (notifications = <<>> /\ unreadCount = 0)

\* C26: two confirmations in a row of markAsRead(id), for a record that was
\* UNREAD before the first, lower unreadCount by one in total.
C26_DoubleMarkCountsOnce ==
  (/\ last.op = "markOk"
   /\ last.before.op = "markOk"
   /\ last.before.id = last.id
   /\ WithId(last.before.pre.n, last.id) \cap Unread(last.before.pre.n) # {}) =>
    unreadCount = last.before.pre.c - 1

\* C27: when the [user] effect has run, a stream handle is held exactly when a
\* user is logged in and no stream is open without a user; startSSEStream has
\* run only with a token in localStorage and leaves its stream open; without a
\* token it opens nothing.
C27_StreamIffUser ==
  /\ (~authLoading /\ ~effectDue /\ pc = <<>>) =>
       /\ eventSourceRef # 0 <=> user # NoUser
       /\ user = NoUser => openStreams = {}
       /\ user # NoUser => eventSourceRef \in openStreams
  /\ last.op = "startSSEStream" =>
       /\ localStorage.token # NoToken
       /\ eventSourceRef \in openStreams
  /\ StartSSEStream(ES, NoToken).ref = 0
  /\ StartSSEStream(ES, NoToken).open = openStreams \ {eventSourceRef}

\* the effect of a session has just opened the stream
C27_Witness ==
  /\ last.op = "startSSEStream"
  /\ user # NoUser /\ ~effectDue /\ pc = <<>>
  /\ localStorage.token # NoToken
  /\ localStorage.user = user
  /\ openStreams = {eventSourceRef}
  /\ fetches.old > 0

\* C28: unreadCount is never negative.
C28_UnreadCountNotNegative == unreadCount >= 0

\* a mark-read confirmation that found an empty store with the counter at 0
C28_Witness ==
  /\ last.op = "markOk"
  /\ last.pre = EmptyStore
  /\ notifications = <<>>
  /\ unreadCount = 0

\* C29: loading is true only while a snapshot fetch is in flight, and it is
\* false right after every snapshot load that completed, resolved or rejected.
C29_LoadingFollowsFetches ==
  /\ (loading /\ ~navigating) => Outstanding > 0
  /\ last.op \in {"loadOk", "loadFail"} => ~loading

\* a load has failed while another one is still in flight
C29_Witness ==
  /\ last.op = "loadFail"
  /\ ~navigating
  /\ ~loading
  /\ Outstanding > 0

====
